---- MODULE Spec2Model ----
(***************************************************************************)
(* A model of the Retink text summarizer service (src/server.js): the      *)
(* rate limiter in front of every route, the three routes and the 404      *)
(* handler, the validation chain of POST /summarize, the provider call the *)
(* handler awaits, and the mapping of provider failures to responses.      *)
(*                                                                         *)
(* Handlers run to completion on the single JavaScript thread; the only    *)
(* suspension point is the await of the provider call.  The model follows  *)
(* one request at a time in `cur`, from its arrival to its response; the   *)
(* limiter's counts carry the history of all earlier requests.             *)
(*                                                                         *)
(* A text is a sequence of runs [ws, n]: n >= 1 characters that are all    *)
(* whitespace (ws) or all non-whitespace.  Times are in milliseconds.      *)
(***************************************************************************)
EXTENDS Integers, Sequences, FiniteSets, TLC

VARIABLES env, now, hits, resetTime, served, cur

vars == <<env, now, hits, resetTime, served, cur>>

----------------------------------------------------------------------------
(* Bounds of the model *)

\* the clock stops after this many ticks
MaxTicks == 2
\* a client stops sending once the limiter has counted this many of its
\* requests in the current window
MaxHits == 3

----------------------------------------------------------------------------
(* Program constants *)

DefaultWindowMs == 900000
DefaultMax == 100
MinTextLen == 200
MaxTextLen == 10000
\* the documented timeout of the provider call
TimeoutMs == 30000

TickMs == TimeoutMs

Clients == {"ip1", "ip2"}

Unset == <<>>

AllowedTones == {"professional", "casual", "academic", "creative"}
AllowedLengths == {"short", "medium", "long"}

----------------------------------------------------------------------------
(* Inputs *)

W(n) == [ws |-> FALSE, n |-> n]
S(n) == [ws |-> TRUE, n |-> n]

Str(runs) == [str |-> TRUE, runs |-> runs]
\* a value that is not a string, with the text its conversion to a string gives
NotStr(runs) == [str |-> FALSE, runs |-> runs]

Texts ==
  { Str(<<W(199)>>),
    Str(<<W(120), S(1), W(79)>>),
    Str(<<S(200)>>),
    Str(<<S(1), W(300), S(2), W(40), S(1)>>),
    Str(<<W(9000), S(1), W(999)>>),
    Str(<<W(10000), S(1)>>),
    NotStr(<<W(250)>>),
    NotStr(<<>>) }

GoodText == Str(<<W(120), S(1), W(79)>>)

Body(text, tone, length) == [text |-> text, tone |-> tone, length |-> length]

\* tone and length are <<>> when the field is omitted, <<v>> when supplied
Bodies ==
  { Body(t, Unset, Unset) : t \in Texts }
  \cup { Body(GoodText, <<"professional">>, <<"short">>),
         Body(GoodText, <<"casual">>, <<"medium">>),
         Body(GoodText, <<"academic">>, <<"long">>),
         Body(GoodText, <<"creative">>, Unset),
         Body(GoodText, <<"angry">>, Unset),
         Body(GoodText, Unset, <<"huge">>),
         Body(Str(<<W(199)>>), <<"angry">>, <<"huge">>) }

\* what the provider's reply carries as choices[0].message.content
NullContent == NotStr(<<>>)
Contents ==
  { Str(<<>>),
    Str(<<S(1), W(7), S(1)>>),
    Str(<<W(3), S(1), W(4), S(1), W(2)>>),
    NullContent }

NoMsg == <<>>
Messages ==
  { <<"maximum", "context_length", "exceeded">>, <<"boom">>, <<"bang">>, NoMsg }

NoStatus == 0
NoErr == [status |-> NoStatus, message |-> <<"-">>]

\* the errors a failed provider call throws
ProviderErrors ==
  [status : {429, 401}, message : {<<"maximum", "context_length", "exceeded">>, <<"boom">>}]
  \cup [status : {NoStatus}, message : Messages]

\* the configurations the process can be started with
Envs ==
  { [NODE_ENV |-> Unset, RATE_LIMIT_WINDOW_MS |-> Unset, RATE_LIMIT_MAX_REQUESTS |-> Unset],
    [NODE_ENV |-> <<"development">>, RATE_LIMIT_WINDOW_MS |-> <<45500>>,
     RATE_LIMIT_MAX_REQUESTS |-> <<2>>],
    [NODE_ENV |-> <<"production">>, RATE_LIMIT_WINDOW_MS |-> <<0>>,
     RATE_LIMIT_MAX_REQUESTS |-> <<1>>] }

----------------------------------------------------------------------------
(* Helpers *)

CeilDiv(a, b) == (a + b - 1) \div b

\* parseInt(v) || d : an unset variable parses to NaN, and NaN and 0 are falsy
ParseIntOr(v, d) == IF v = Unset THEN d ELSE IF v[1] = 0 THEN d ELSE v[1]

RECURSIVE StrLen(_)
StrLen(runs) == IF runs = <<>> THEN 0 ELSE Head(runs).n + StrLen(Tail(runs))

----------------------------------------------------------------------------
(* Rate limiter: rateLimit({windowMs, max, message, standardHeaders}) *)

WindowMs == ParseIntOr(env.RATE_LIMIT_WINDOW_MS, DefaultWindowMs)

Max == ParseIntOr(env.RATE_LIMIT_MAX_REQUESTS, DefaultMax)

\* message.retryAfter, computed once when the limiter is constructed
RetryAfter == CeilDiv(WindowMs, 1000)

\* the client has no open window: it has none yet, or its window has ended
Expired(c) == hits[c] = 0 \/ resetTime[c] <= now

\* the count of the client's requests in its window, this one included
HitsAfter(c) == IF Expired(c) THEN 1 ELSE hits[c] + 1

ResetAfter(c) == IF Expired(c) THEN now + WindowMs ELSE resetTime[c]

\* a limiter that lets one request more through than max
AdmittedOneMore(c) == HitsAfter(c) <= Max + 1

\* the limiter calls next() for this request
Admitted(c) == HitsAfter(c) <= Max

\* the RateLimit-Reset header: the seconds left in the client's window
RateLimitReset(c) == CeilDiv(ResetAfter(c) - now, 1000)

\* the limiter counts the request, whether it admits it or not
Limiter(c) ==
  /\ hits' = [hits EXCEPT ![c] = HitsAfter(c)]
  /\ resetTime' = [resetTime EXCEPT ![c] = ResetAfter(c)]
  /\ served' = [served EXCEPT ![c] =
                  (IF Expired(c) THEN 0 ELSE served[c]) + (IF Admitted(c) THEN 1 ELSE 0)]

----------------------------------------------------------------------------
(* Validation chain of POST /summarize *)

Detail(field, msg) == [field |-> field, msg |-> msg]

MsgNotString == "Text must be a string"
MsgTooShort == "Text must be at least 200 characters long"
MsgTooLong == "Text must not exceed 10,000 characters"
MsgTone == "Tone must be one of: professional, casual, academic, creative"
MsgLength == "Length must be one of: short, medium, long"

\* isString
IsString(text) == text.str

\* a minimum that excludes the bound itself
LongEnoughStrict(text) == StrLen(text.runs) > MinTextLen

\* isLength({ min: 200 })
LongEnough(text) == StrLen(text.runs) >= MinTextLen

\* isLength({ max: 10000 })
ShortEnough(text) == StrLen(text.runs) <= MaxTextLen

\* every validator of the chain runs, and each failing one adds its message
TextErrors(text) ==
  (IF IsString(text) THEN {} ELSE {Detail("text", MsgNotString)})
  \cup (IF LongEnough(text) THEN {} ELSE {Detail("text", MsgTooShort)})
  \cup (IF ShortEnough(text) THEN {} ELSE {Detail("text", MsgTooLong)})

\* optional().isIn([...])
ToneErrors(tone) ==
  IF tone = Unset \/ tone[1] \in AllowedTones THEN {} ELSE {Detail("tone", MsgTone)}

LengthErrors(length) ==
  IF length = Unset \/ length[1] \in AllowedLengths THEN {} ELSE {Detail("length", MsgLength)}

\* validationResult(req).array()
ValidationErrors(b) == TextErrors(b.text) \cup ToneErrors(b.tone) \cup LengthErrors(b.length)

----------------------------------------------------------------------------
(* Text metrics *)

RECURSIVE TrimStart(_)
TrimStart(t) ==
  IF t = <<>> THEN t ELSE IF Head(t).ws THEN TrimStart(Tail(t)) ELSE t

RECURSIVE TrimEnd(_)
TrimEnd(t) ==
  IF t = <<>> THEN t
  ELSE IF t[Len(t)].ws THEN TrimEnd(SubSeq(t, 1, Len(t) - 1)) ELSE t

\* String.prototype.trim
Trim(t) == TrimEnd(TrimStart(t))

\* split(/\s+/): the lengths of the pieces between the maximal whitespace
\* runs; acc is the length of the piece being read.  "" splits into [""].
RECURSIVE SplitWs(_, _)
SplitWs(t, acc) ==
  IF t = <<>> THEN <<acc>>
  ELSE IF Head(t).ws THEN <<acc>> \o SplitWs(TrimStart(Tail(t)), 0)
  ELSE SplitWs(Tail(t), acc + Head(t).n)

NonEmpty(n) == n > 0

\* word counting without the filter of empty pieces
countWordsUnfiltered(t) == Len(SplitWs(Trim(t), 0))

countWords(t) == Len(SelectSeq(SplitWs(Trim(t), 0), NonEmpty))

----------------------------------------------------------------------------
(* Prompt builder *)

getSummaryLength(length) ==
  CASE length = "short" -> "1-2 sentences"
    [] length = "long" -> "4-6 sentences"
    [] OTHER -> "2-4 sentences"

getToneInstruction(tone) ==
  CASE tone = "professional" -> "Use a professional and formal tone."
    [] tone = "casual" -> "Use a casual and conversational tone."
    [] tone = "academic" -> "Use an academic and scholarly tone."
    [] tone = "creative" -> "Use a creative and engaging tone."
    [] OTHER -> ""

\* a destructuring that leaves an omitted tone undefined
ToneOfNoDefault(b) == IF b.tone = Unset THEN "" ELSE b.tone[1]

\* const { text, tone = 'professional', length = 'medium' } = req.body
ToneOf(b) == IF b.tone = Unset THEN "professional" ELSE b.tone[1]

LengthOf(b) == IF b.length = Unset THEN "medium" ELSE b.length[1]

----------------------------------------------------------------------------
(* Result assembly *)

\* a / b rounded to the nearest integer, halves away from zero (b > 0)
RoundDiv(a, b) ==
  IF a >= 0 THEN (2 * a + b) \div (2 * b) ELSE 0 - ((2 * (0 - a) + b) \div (2 * b))

\* ((o - s) / o * 100).toFixed(1) + '%': a number of tenths of a percent, or
\* the text toFixed gives for a quotient that is no finite number
compressionRatio(o, s) ==
  IF o # 0 THEN [kind |-> "number", tenths |-> RoundDiv((o - s) * 1000, o)]
  ELSE IF s = 0 THEN [kind |-> "NaN", tenths |-> 0]
  ELSE [kind |-> "-Infinity", tenths |-> 0]

----------------------------------------------------------------------------
(* Error mapping of the catch block *)

\* error.message.includes('context_length')
Includes(message, word) == \E i \in 1..Len(message) : message[i] = word

\* a catch block without its branch for status 429
ErrorClassNo429(e) ==
  IF e.status = 401 THEN "unauthorized"
  ELSE IF e.message # NoMsg /\ Includes(e.message, "context_length") THEN "too_long"
  ELSE "unknown"

\* a catch block that looks at the message before the status
ErrorClassMessageFirst(e) ==
  IF e.message # NoMsg /\ Includes(e.message, "context_length") THEN "too_long"
  ELSE IF e.status = 429 THEN "rate_limited"
  ELSE IF e.status = 401 THEN "unauthorized"
  ELSE "unknown"

\* the error is answered by the first branch of the catch block that matches
ErrorClass(e) ==
  IF e.status = 429 THEN "rate_limited"
  ELSE IF e.status = 401 THEN "unauthorized"
  ELSE IF e.message # NoMsg /\ Includes(e.message, "context_length") THEN "too_long"
  ELSE "unknown"

ErrorStatus(e) ==
  CASE ErrorClass(e) = "rate_limited" -> 503
    [] ErrorClass(e) = "unauthorized" -> 500
    [] ErrorClass(e) = "too_long" -> 400
    [] OTHER -> 500

ErrorText(e) ==
  CASE ErrorClass(e) = "rate_limited" -> "Service temporarily unavailable due to rate limits"
    [] ErrorClass(e) = "unauthorized" -> "Configuration error"
    [] ErrorClass(e) = "too_long" -> "Text too long"
    [] OTHER -> "Internal server error"

\* the message field of the catch block's answers
ErrorMessage(e) ==
  CASE ErrorClass(e) = "rate_limited" -> "Please try again later"
    [] ErrorClass(e) = "unauthorized" -> "API key is invalid or missing"
    [] ErrorClass(e) = "too_long" -> "The provided text exceeds the maximum allowed length"
    [] OTHER -> "Failed to generate summary. Please try again."

\* details given in every configuration that is not production
ErrorDetailsUnlessProduction(e) ==
  IF ErrorClass(e) = "unknown" /\ env.NODE_ENV # <<"production">> /\ e.message # NoMsg
  THEN <<e.message>> ELSE <<>>

\* details: process.env.NODE_ENV === 'development' ? error.message : undefined
ErrorDetails(e) ==
  IF ErrorClass(e) = "unknown" /\ env.NODE_ENV = <<"development">> /\ e.message # NoMsg
  THEN <<e.message>> ELSE <<>>

\* what reading .trim() of a null content throws
TypeError == [status |-> NoStatus, message |-> <<"Cannot", "read", "properties", "of", "null">>]

----------------------------------------------------------------------------
(* Requests and responses *)

NoBody == Body(NotStr(<<>>), Unset, Unset)

\* a request that has arrived and has not been answered
Arrived(c, route, b) ==
  [pc |-> "arrived", client |-> c, route |-> route, body |-> b, start |-> 0,
   admitted |-> FALSE, status |-> 0, error |-> "", details |-> {},
   retryAfter |-> <<>>, rateLimitReset |-> 0, health |-> "",
   calls |-> 0, wordCalls |-> 0, thrown |-> <<>>, data |-> <<>>, errDetails |-> <<>>,
   prompt |-> <<>>, message |-> ""]

\* the limiter's answer: status 429 with the configured message
Denied(r, c) ==
  [r EXCEPT !.pc = "done", !.status = 429,
            !.error = "Too many requests from this IP, please try again later.",
            !.retryAfter = <<RetryAfter>>, !.rateLimitReset = RateLimitReset(c)]

Answer(r, status) == [r EXCEPT !.pc = "done", !.admitted = TRUE, !.status = status]

\* a catch block that calls the provider once more before it answers
FailedRetrying(r, e) ==
  [r EXCEPT !.pc = "done", !.start = 0, !.status = ErrorStatus(e), !.error = ErrorText(e),
            !.message = ErrorMessage(e),
            !.thrown = <<e>>, !.errDetails = ErrorDetails(e), !.calls = r.calls + 1]

\* the catch block's answer to a thrown error
Failed(r, e) ==
  [r EXCEPT !.pc = "done", !.start = 0, !.status = ErrorStatus(e), !.error = ErrorText(e),
            !.message = ErrorMessage(e),
            !.thrown = <<e>>, !.errDetails = ErrorDetails(e)]

\* the handler without the return of its validation branch
ShortCircuitsNever(errs) == FALSE

\* if (!errors.isEmpty()) return res.status(400)...
ShortCircuits(errs) == errs # {}

\* a handler that counts no words before its provider call
SummarizeSyncCountsLater(r, b) ==
  IF ShortCircuits(ValidationErrors(b))
  THEN [Answer(r, 400) EXCEPT !.error = "Validation failed", !.details = ValidationErrors(b)]
  ELSE [r EXCEPT !.pc = "awaiting", !.admitted = TRUE, !.start = now,
                 !.wordCalls = 0, !.calls = 1,
                 !.data = <<[originalWordCount |-> countWords(b.text.runs)]>>,
                 !.prompt = <<getSummaryLength(LengthOf(b)), getToneInstruction(ToneOf(b))>>]

\* the handler of POST /summarize up to its await
SummarizeSync(r, b) ==
  IF ShortCircuits(ValidationErrors(b))
  THEN [Answer(r, 400) EXCEPT !.error = "Validation failed", !.details = ValidationErrors(b)]
  ELSE [r EXCEPT !.pc = "awaiting", !.admitted = TRUE, !.start = now,
                 !.wordCalls = 1, !.calls = 1,
                 !.data = <<[originalWordCount |-> countWords(b.text.runs)]>>,
                 !.prompt = <<getSummaryLength(LengthOf(b)), getToneInstruction(ToneOf(b))>>]

\* the handler after the provider's reply
SummarizeDone(r, content) ==
  IF ~content.str THEN Failed(r, TypeError)
  ELSE LET o == r.data[1].originalWordCount
           s == countWords(Trim(content.runs))
       IN [r EXCEPT !.pc = "done", !.start = 0, !.status = 200, !.wordCalls = 2,
                    !.data = <<[originalWordCount |-> o, summaryWordCount |-> s,
                                compressionRatio |-> compressionRatio(o, s),
                                tone |-> ToneOf(r.body), length |-> LengthOf(r.body)]>>]

----------------------------------------------------------------------------
(* Actions *)

Init ==
  /\ env \in Envs
  /\ now = 0
  /\ hits = [c \in Clients |-> 0]
  /\ resetTime = [c \in Clients |-> 0]
  /\ served = [c \in Clients |-> 0]
  /\ cur = [Arrived("ip1", "none", NoBody) EXCEPT !.pc = "idle"]

CanArrive(c) == cur.pc # "awaiting" /\ HitsAfter(c) <= MaxHits

\* what the limiter and then the route answer to a request without a body
Routed(c, route, status, health) ==
  IF Admitted(c)
  THEN [Answer(Arrived(c, route, NoBody), status) EXCEPT !.health = health]
  ELSE Denied(Arrived(c, route, NoBody), c)

GetInfo(c) ==
  /\ CanArrive(c)
  /\ Limiter(c)
  /\ cur' = Routed(c, "info", 200, "")
  /\ UNCHANGED <<env, now>>

GetHealth(c) ==
  /\ CanArrive(c)
  /\ Limiter(c)
  /\ cur' = Routed(c, "health", 200, "healthy")
  /\ UNCHANGED <<env, now>>

\* app.use('*'): any other method and path
NotFound(c) ==
  /\ CanArrive(c)
  /\ Limiter(c)
  /\ cur' = Routed(c, "notfound", 404, "")
  /\ UNCHANGED <<env, now>>

PostSummarize(c, b) ==
  /\ CanArrive(c)
  /\ Limiter(c)
  /\ cur' = IF Admitted(c)
            THEN SummarizeSync(Arrived(c, "summarize", b), b)
            ELSE Denied(Arrived(c, "summarize", b), c)
  /\ UNCHANGED <<env, now>>

ProviderResolve(content) ==
  /\ cur.pc = "awaiting"
  /\ cur' = SummarizeDone(cur, content)
  /\ UNCHANGED <<env, now, hits, resetTime, served>>

ProviderReject(e) ==
  /\ cur.pc = "awaiting"
  /\ cur' = Failed(cur, e)
  /\ UNCHANGED <<env, now, hits, resetTime, served>>

Tick ==
  /\ now < MaxTicks * TickMs
  /\ now' = now + TickMs
  /\ UNCHANGED <<env, hits, resetTime, served, cur>>

Next ==
  \/ \E c \in Clients : GetInfo(c)
  \/ \E c \in Clients : GetHealth(c)
  \/ \E c \in Clients : NotFound(c)
  \/ \E c \in Clients, b \in Bodies : PostSummarize(c, b)
  \/ \E content \in Contents : ProviderResolve(content)
  \/ \E e \in ProviderErrors : ProviderReject(e)
  \/ Tick

Spec == Init /\ [][Next]_vars

----------------------------------------------------------------------------
(* Properties *)

\* the request in cur is a POST /summarize that the limiter let through
Summarizing == cur.route = "summarize" /\ cur.admitted

\* C1: a POST /summarize request whose payload fails validation never calls
\* the provider: it is answered 400 'Validation failed' at once, with no
\* provider call made and none pending.
C1_InvalidNeverReachesProvider ==
  (Summarizing /\ ValidationErrors(cur.body) # {})
    => /\ cur.calls = 0
       /\ cur.pc = "done"
       /\ cur.status = 400
       /\ cur.error = "Validation failed"

C1_Witness ==
  /\ Summarizing
  /\ ValidationErrors(cur.body) # {}
  /\ cur.pc = "done"
  /\ cur.status = 400

\* the request was answered 400 'Validation failed' with this detail
RejectedWith(d) ==
  cur.pc = "done" /\ cur.status = 400 /\ cur.error = "Validation failed" /\ d \in cur.details

\* C2: a POST /summarize request whose text is a string of length L is
\* answered 400 'Validation failed' with the detail of the lower bound
\* exactly when L < 200, and with the detail of the upper bound exactly when
\* L > 10000; for L from 200 to 10000, both included, the answer carries no
\* detail for the field text.
C2_TextLengthBounds ==
  (Summarizing /\ cur.body.text.str)
    => LET L == StrLen(cur.body.text.runs) IN
       /\ RejectedWith(Detail("text", MsgTooShort)) <=> L < 200
       /\ RejectedWith(Detail("text", MsgTooLong)) <=> L > 10000
       /\ (L >= 200 /\ L <= 10000) => \A d \in cur.details : d.field # "text"

C2_Witness ==
  /\ Summarizing
  /\ cur.body.text.str
  /\ StrLen(cur.body.text.runs) = 200
  /\ cur.pc = "awaiting"
  /\ cur.details = {}

\* C3: a GET /health request is answered 200 with status 'healthy', whatever
\* requests came before it.
C3_HealthAlwaysHealthy ==
  (cur.route = "health" /\ cur.pc = "done")
    => (cur.status = 200 /\ cur.health = "healthy")

\* C4: the retryAfter of a denial by the rate limiter is the number of
\* seconds left in the client's window when the request is denied.
C4_RetryAfterIsTimeLeft ==
  (cur.pc = "done" /\ cur.status = 429)
    => cur.retryAfter = <<cur.rateLimitReset>>

Validated == Summarizing /\ ValidationErrors(cur.body) = {}

\* the text has a character that is not whitespace
HasWord(text) == \E i \in 1..Len(text.runs) : ~text.runs[i].ws

Sentinel == [kind |-> "number", tenths |-> 0]

\* C6: a success response whose originalWordCount is 0 reports the
\* compressionRatio "0.0%".
C6_ZeroWordsGiveSentinel ==
  (cur.pc = "done" /\ cur.status = 200 /\ cur.route = "summarize"
     /\ cur.data[1].originalWordCount = 0)
    => cur.data[1].compressionRatio = Sentinel

\* C7 as stated: every request that passes validation has an
\* originalWordCount of at least 1.
C7_ValidatedHasWords ==
  Validated => cur.data[1].originalWordCount >= 1

\* C7, amended: a request that passes validation has an originalWordCount of
\* at least 1 exactly when its text has a character that is not whitespace;
\* a text of 200 to 10,000 whitespace characters passes validation with an
\* originalWordCount of 0.
C7_ValidatedWordCount ==
  Validated =>
    /\ StrLen(cur.body.text.runs) >= 200
    /\ StrLen(cur.body.text.runs) <= 10000
    /\ HasWord(cur.body.text) <=> cur.data[1].originalWordCount >= 1
    /\ ~HasWord(cur.body.text) <=> cur.data[1].originalWordCount = 0

C7_Witness ==
  /\ Validated
  /\ ~HasWord(cur.body.text)
  /\ cur.pc = "done"
  /\ cur.status = 200
  /\ cur.data[1].originalWordCount = 0

\* the provider call of the request failed with this status
ProviderFailedWith(status) ==
  cur.pc = "done" /\ cur.thrown # <<>> /\ cur.thrown[1].status = status

\* C8: a validated request whose provider call fails with status 429 is
\* answered 503, whatever the message of the error.
C8_ProviderRateLimitGives503 ==
  ProviderFailedWith(429)
    => /\ cur.status = 503
       /\ cur.error = "Service temporarily unavailable due to rate limits"

C8_Witness ==
  /\ ProviderFailedWith(429)
  /\ Includes(cur.thrown[1].message, "context_length")
  /\ cur.status = 503

\* C9: a validated request whose provider call fails with status 401 is
\* answered 500 with error 'Configuration error', whatever the message of
\* the error, one that mentions context_length included.
C9_ProviderAuthGivesConfigError ==
  ProviderFailedWith(401)
    => (cur.status = 500 /\ cur.error = "Configuration error" /\ cur.errDetails = <<>>)

C9_Witness ==
  /\ ProviderFailedWith(401)
  /\ Includes(cur.thrown[1].message, "context_length")
  /\ cur.status = 500
  /\ cur.error = "Configuration error"

\* C10: a provider call is not pending for longer than the timeout: once
\* the timeout has passed, the call has been abandoned and the request
\* answered.
C10_NoCallPendingPastTimeout ==
  cur.pc = "awaiting" => now - cur.start <= TimeoutMs

\* the provider call of the request failed: the catch block answered it
ProviderFailed == cur.pc = "done" /\ cur.route = "summarize" /\ cur.thrown # <<>>

\* C11 as stated: in a request whose provider call fails, countWords is not
\* invoked at any point.
C11_NoWordCountOnFailure ==
  ProviderFailed => cur.wordCalls = 0

\* C11, amended: in a request whose provider call fails, countWords is
\* invoked exactly once, on the original text before the provider call, and
\* never on a summary; while the call is pending it has been invoked once,
\* and the second invocation, on the summary, happens only in a request
\* whose provider call returned a summary.
C11_WordCountOnlyOfOriginalOnFailure ==
  /\ ProviderFailed => (cur.wordCalls = 1 /\ DOMAIN cur.data[1] = {"originalWordCount"})
  /\ (Validated /\ cur.pc = "awaiting") => cur.wordCalls = 1
  /\ cur.wordCalls = 2 => (cur.pc = "done" /\ cur.status = 200 /\ cur.thrown = <<>>)
  /\ ~Validated => cur.wordCalls = 0

C11_Witness ==
  /\ ProviderFailed
  /\ cur.thrown[1].status = 429
  /\ cur.wordCalls = 1
  /\ cur.status = 503

\* C12: a request that passes validation causes exactly one call to the
\* provider, while the call is pending and after the request is answered;
\* when the call fails the handler makes no further call and answers with
\* the response of the error's class (503, 500 'Configuration error', 400
\* 'Text too long' or 500 'Internal server error').
C12_ExactlyOneProviderCall ==
  /\ Validated => cur.calls = 1
  /\ ~Validated => cur.calls = 0
  /\ ProviderFailed =>
       /\ cur.calls = 1
       /\ <<cur.status, cur.error>> \in
            { <<503, "Service temporarily unavailable due to rate limits">>,
              <<500, "Configuration error">>,
              <<400, "Text too long">>,
              <<500, "Internal server error">> }

C12_Witness ==
  /\ ProviderFailed
  /\ cur.thrown[1].status = NoStatus
  /\ cur.calls = 1
  /\ cur.status = 400
  /\ cur.error = "Text too long"

\* C13: in a success response, settings.tone is the supplied tone, one of
\* the four allowed, or 'professional' when tone was omitted, and
\* settings.length is the supplied length, one of the three allowed, or
\* 'medium' when length was omitted.
C13_SettingsEchoOrDefault ==
  (cur.route = "summarize" /\ cur.pc = "done" /\ cur.status = 200) =>
    LET b == cur.body
        d == cur.data[1]
    IN /\ b.tone = Unset => d.tone = "professional"
       /\ b.tone # Unset =>
            (d.tone = b.tone[1]
               /\ b.tone[1] \in {"professional", "casual", "academic", "creative"})
       /\ b.length = Unset => d.length = "medium"
       /\ b.length # Unset =>
            (d.length = b.length[1] /\ b.length[1] \in {"short", "medium", "long"})

C13_Witness ==
  /\ cur.route = "summarize"
  /\ cur.pc = "done"
  /\ cur.status = 200
  /\ cur.body.tone = <<"creative">>
  /\ cur.body.length = Unset
  /\ cur.data[1].tone = "creative"
  /\ cur.data[1].length = "medium"

\* the body of the response in r
ResponseBody(r) ==
  [status |-> r.status, error |-> r.error, message |-> r.message,
   details |-> r.errDetails]

\* the provider errors that fall in none of the specific categories
UnknownErrors ==
  { e \in ProviderErrors :
      e.status \notin {429, 401} /\ ~Includes(e.message, "context_length") }

\* C14: a provider failure of none of the specific categories is answered
\* 500 'Internal server error', with the error's message in details only
\* when NODE_ENV is 'development'; in every other configuration, the unset
\* one included, the response has no details, and the responses to two
\* such failures of the pending request that differ only in their message
\* are the same.
C14_DetailsOnlyInDevelopment ==
  /\ (ProviderFailed /\ cur.thrown[1] \in UnknownErrors) =>
       /\ cur.status = 500
       /\ cur.error = "Internal server error"
       /\ cur.errDetails # <<>> =>
            (env.NODE_ENV = <<"development">> /\ cur.errDetails = <<cur.thrown[1].message>>)
       /\ env.NODE_ENV # <<"development">> => cur.errDetails = <<>>
  /\ (cur.pc = "awaiting" /\ env.NODE_ENV # <<"development">>) =>
       \A e1, e2 \in UnknownErrors :
         (e1.status = e2.status /\ e1.message # e2.message)
           => ResponseBody(Failed(cur, e1)) = ResponseBody(Failed(cur, e2))

\* an unknown failure answered without details while NODE_ENV is unset
C14_Witness ==
  /\ ProviderFailed
  /\ cur.thrown[1] \in UnknownErrors
  /\ cur.thrown[1].message = <<"boom">>
  /\ env.NODE_ENV = Unset
  /\ cur.errDetails = <<>>
  /\ cur.status = 500

====
